---------------------------- MODULE Spec2Model ----------------------------
(***************************************************************************)
(* A model of autonixdoc: the tiered configuration resolution, the path    *)
(* identification, the source -> destination path mapping, the per-file    *)
(* execution and the Driver's walk under the three failure behaviours.     *)
(*                                                                         *)
(* Representation of std::path::Path.  Rust compares, hashes and splits a  *)
(* path by its components, so a path is the sequence of its components.    *)
(* A component is a file name cut at its dots: "a.b.nix" is                *)
(* <<"a","b","nix">>, ".nix" is <<"","nix">>, "." is <<"","">> and ".." is *)
(* <<"","","">>.  The root directory is the component <<"/">>.             *)
(* An Option<T> is a sequence of length 0 (None) or 1 (Some).              *)
(***************************************************************************)
EXTENDS Naturals, Sequences, FiniteSets

VARIABLES
    m_in,       \* the arguments of one call of AutoMapping::resolve
    m_out,      \* what that call produced; <<>> while it has not run
    c_in,       \* one field's explicit value and configuration-file value
    c_out,      \* the field's effective value; <<>> while unresolved
    p_in,       \* a pattern option and a path to identify
    p_out,      \* from_pattern and should_process on them; <<>> before
    env,        \* the process environment: variable name -> Option<value>
    pc,         \* where Driver::run is: "idle", "start", "walk", "done"
                \* ("execute" before a single call of AutoNixdoc::execute)
    self,       \* the Driver, as parsed from the command line
    config,     \* the AutoMappingConfig that resolve_config loaded
    behaviors,  \* Behaviors: on_failure and path_identification
    autonixdoc, \* the AutoNixdoc that run built
    walked,     \* the entries Walk has yielded so far
    log,        \* the diagnostics emitted (error! and info!), in order
    dirs,       \* the directories created under the output root
    files,      \* the files created: destination path -> content
    calls,      \* the generator invocations: their argument lists, in order
    executed,   \* the paths passed to AutoNixdoc::execute, in order
    result,     \* what run returned: <<>> while running
    probed,     \* the configuration paths run looked at, and what it found
    previous    \* the earlier run of the same command on the same tree: its
                \* walk and what it left behind; <<>> in a first run

mvars == <<m_in, m_out>>
cvars == <<c_in, c_out>>
pvars == <<p_in, p_out>>
dvars == <<pc, self, config, behaviors, autonixdoc, walked, log, dirs, files,
           calls, executed, result, probed, previous>>

vars == <<m_in, m_out, c_in, c_out, p_in, p_out, env, pc, self, config,
          behaviors, autonixdoc, walked, log, dirs, files, calls, executed,
          result, probed, previous>>

-----------------------------------------------------------------------------
(* Bounds *)

\* the longest file name, in dot-separated segments
MaxSegs == 3
\* the most directories between a path's first components and its file name
MaxDirs == 1

-----------------------------------------------------------------------------
(* Option *)

None == <<>>
Some(x) == <<x>>
IsSome(o) == o # <<>>
Get(o) == o[1]

SeqsUpTo(S, n) == UNION {[1..k -> S] : k \in 0..n}

-----------------------------------------------------------------------------
(* std::path *)

RootDir == <<"/">>
CurDir == <<"", "">>
ParentDir == <<"", "", "">>

IsNormal(c) == c # RootDir /\ c # CurDir /\ c # ParentDir

Last(s) == s[Len(s)]
Front(s) == SubSeq(s, 1, Len(s) - 1)

\* Components drops every "." that is not the path's first component.
Components(s) == SelectSeq([i \in 1..Len(s) |-> <<i, s[i]>>],
                           LAMBDA e : e[2] # CurDir \/ e[1] = 1)

Norm(s) == [i \in 1..Len(Components(s)) |-> Components(s)[i][2]]

is_absolute(p) == p # <<>> /\ p[1] = RootDir

parent(p) ==
    IF p = <<>> \/ Last(p) = RootDir THEN None ELSE Some(Front(p))

file_name(p) ==
    IF p # <<>> /\ IsNormal(Last(p)) THEN Some(Last(p)) ELSE None

\* (before, after) of a file name at its last dot
rsplit_file_at_dot(file) ==
    IF file = ParentDir THEN <<Some(file), None>>
    ELSE IF Len(file) = 1 THEN <<None, Some(file)>>
    ELSE IF Front(file) = <<"">> THEN <<Some(file), None>>
    ELSE <<Some(Front(file)), Some(<<Last(file)>>)>>

file_stem(p) ==
    IF ~IsSome(file_name(p)) THEN None
    ELSE LET ba == rsplit_file_at_dot(Get(file_name(p)))
         IN  IF IsSome(ba[1]) THEN ba[1] ELSE ba[2]

extension(p) ==
    IF ~IsSome(file_name(p)) THEN None
    ELSE LET ba == rsplit_file_at_dot(Get(file_name(p)))
         IN  IF IsSome(ba[1]) THEN ba[2] ELSE None

\* Ok(rest) as Some(rest), Err(StripPrefixError) as None
strip_prefix(p, base) ==
    IF Len(base) <= Len(p) /\ SubSeq(p, 1, Len(base)) = base
    THEN Some(SubSeq(p, Len(base) + 1, Len(p)))
    ELSE None

starts_with(p, base) == IsSome(strip_prefix(p, base))

\* PathBuf::push: an absolute argument replaces the path
join(p, q) == IF is_absolute(q) THEN q ELSE Norm(p \o q)

\* PathBuf::set_extension: cut after the file stem, then add "." and ext
with_extension(p, ext) ==
    IF ~IsSome(file_stem(p)) THEN p
    ELSE Front(p) \o <<Get(file_stem(p)) \o <<ext>>>>

-----------------------------------------------------------------------------
(* mapping.rs: PathAction and AutoMapping::resolve *)

NoPath == <<>>

OutputTo(p) == [kind |-> "OutputTo", path |-> p, msg |-> ""]
Skip == [kind |-> "Skip", path |-> NoPath, msg |-> ""]
Err(m) == [kind |-> "Err", path |-> NoPath, msg |-> m]
\* a panic: the call does not return, the thread unwinds
Panic(m) == [kind |-> "Panic", path |-> NoPath, msg |-> m]

NoParent == "source path had no parent"
NoStem == "source path had no file name"
PrefixBug == "Source directory isn't a prefix of source path? Please report this, it's a bug"

\* self.dest_base.to_path_buf().join(relative_path).join(source_stem).with_extension("md")
mirror(dest_base, relative_path, source_stem) ==
    with_extension(join(join(dest_base, relative_path), <<source_stem>>), "md")

\* resolve with the membership test after the path arithmetic
resolve_ignore_last(ignore_paths, source_base, dest_base, source_path) ==
    IF ~IsSome(parent(source_path)) THEN Err(NoParent)
    ELSE LET source_dir == Get(parent(source_path))
             relative_path == strip_prefix(source_dir, source_base)
         IN  IF ~IsSome(relative_path) THEN Panic(PrefixBug)
             ELSE IF ~IsSome(file_stem(source_path)) THEN Err(NoStem)
             ELSE IF source_path \in ignore_paths THEN Skip
             ELSE OutputTo(mirror(dest_base, Get(relative_path),
                                  Get(file_stem(source_path))))

\* resolve with the failed strip_prefix returned as an error value
resolve_prefix_err(ignore_paths, source_base, dest_base, source_path) ==
    IF source_path \in ignore_paths THEN Skip
    ELSE IF ~IsSome(parent(source_path)) THEN Err(NoParent)
    ELSE LET source_dir == Get(parent(source_path))
             relative_path == strip_prefix(source_dir, source_base)
         IN  IF ~IsSome(relative_path) THEN Err(PrefixBug)
             ELSE IF ~IsSome(file_stem(source_path)) THEN Err(NoStem)
             ELSE OutputTo(mirror(dest_base, Get(relative_path),
                                  Get(file_stem(source_path))))

\* resolve with the stem taken by expect instead of with_context
resolve_stem_expect(ignore_paths, source_base, dest_base, source_path) ==
    IF source_path \in ignore_paths THEN Skip
    ELSE IF ~IsSome(parent(source_path)) THEN Err(NoParent)
    ELSE LET source_dir == Get(parent(source_path))
             relative_path == strip_prefix(source_dir, source_base)
         IN  IF ~IsSome(relative_path) THEN Panic(PrefixBug)
             ELSE IF ~IsSome(file_stem(source_path)) THEN Panic(NoStem)
             ELSE OutputTo(mirror(dest_base, Get(relative_path),
                                  Get(file_stem(source_path))))

resolve(ignore_paths, source_base, dest_base, source_path) ==
    IF source_path \in ignore_paths THEN Skip
    ELSE IF ~IsSome(parent(source_path)) THEN Err(NoParent)
    ELSE LET source_dir == Get(parent(source_path))
             relative_path == strip_prefix(source_dir, source_base)
         IN  IF ~IsSome(relative_path) THEN Panic(PrefixBug)
             ELSE IF ~IsSome(file_stem(source_path)) THEN Err(NoStem)
             ELSE OutputTo(mirror(dest_base, Get(relative_path),
                                  Get(file_stem(source_path))))

-----------------------------------------------------------------------------
(* The inputs of the mapping *)

Seg == {"", "a", "nix"}

\* every file name of at most MaxSegs segments; <<"">> is the empty string
Names == UNION {[1..k -> Seg] : k \in 1..MaxSegs} \ {<<"">>}

src == <<"src">>
lib == <<"lib">>
docs == <<"docs">>

SourceBases == {<<RootDir, src>>, <<src>>, <<CurDir>>}
DestBases == {<<RootDir, docs>>, <<docs>>, <<CurDir>>}

Heads == {<<>>, <<RootDir>>, <<RootDir, src>>, <<src>>, <<CurDir>>}
Dirs == SeqsUpTo({lib, ParentDir}, MaxDirs)
Tails == {<<>>} \cup {<<n>> : n \in Names}

SourcePaths == {Norm(h \o d \o t) : h \in Heads, d \in Dirs, t \in Tails}

\* a path of the ignore list that is no source path
OtherIgnored == <<RootDir, src, lib, <<"ignored", "nix">>>>

IgnoreSets(p) == {{}, {p}, {OtherIgnored}}

-----------------------------------------------------------------------------
(* cli.rs: the tiered resolution of one configuration value *)

\* env_vars
CONFIG == "AUTONIXDOC_CONFIG"
ON_FAILURE == "AUTONIXDOC_ON_FAILURE"
PREFIX == "AUTONIXDOC_PREFIX"
ANCHOR_PREFIX == "AUTONIXDOC_ANCHOR_PREFIX"
LOGGING_LEVEL == "AUTONIXDOC_LOGGING_LEVEL"
REGEX_PATTERN == "AUTONIXDOC_REGEX_PATTERN"

EnvKeys == {CONFIG, ON_FAILURE, PREFIX, ANCHOR_PREFIX, LOGGING_LEVEL,
            REGEX_PATTERN}

\* constants
DEFAULT_CONFIG_PATH == "autonixdoc.toml"

\* FailureBehavior
FailureBehavior == {"Abort", "Log", "Skip"}

\* a value that is not valid unicode
NotUnicode == "<80>"

\* str::to_lowercase, on the strings of the model
to_lowercase(s) ==
    CASE s = "ABORT" -> "abort"
      [] s = "Log" -> "log"
      [] s = "sKiP" -> "skip"
      [] s = "BOGUS" -> "bogus"
      [] OTHER -> s

\* impl FromStr for FailureBehavior: Ok as Some, Err as None
FailureBehavior_from_str(s) ==
    CASE to_lowercase(s) = "abort" -> Some("Abort")
      [] to_lowercase(s) = "log" -> Some("Log")
      [] to_lowercase(s) = "skip" -> Some("Skip")
      [] OTHER -> None

\* s.parse::<T>().ok() for the types T of the resolved fields
parse(T, s) ==
    IF T = "FailureBehavior" THEN FailureBehavior_from_str(s) ELSE Some(s)

\* std::env::var(key).ok(): None when unset or not valid unicode
env_var(key) ==
    IF env[key] = Some(NotUnicode) THEN None ELSE env[key]

\* resolve_option without the environment
resolve_option_cli_only(T, cli_value, env_key) == cli_value

resolve_option(T, cli_value, env_key) ==
    IF IsSome(cli_value) THEN cli_value
    ELSE IF IsSome(env_var(env_key)) THEN parse(T, Get(env_var(env_key)))
    ELSE None

\* resolve_with_config with the configuration file ranked above the
\* environment
resolve_with_config_file_first(T, cli_value, env_key, config_value) ==
    IF IsSome(cli_value) THEN cli_value
    ELSE IF IsSome(config_value) THEN config_value
    ELSE IF IsSome(env_var(env_key)) THEN parse(T, Get(env_var(env_key)))
    ELSE None

resolve_with_config(T, cli_value, env_key, config_value) ==
    IF IsSome(cli_value) THEN cli_value
    ELSE IF IsSome(env_var(env_key))
              /\ IsSome(parse(T, Get(env_var(env_key))))
         THEN parse(T, Get(env_var(env_key)))
    ELSE config_value

\* Default::default(): #[default] Log, String::new()
default(T) == IF T = "FailureBehavior" THEN "Log" ELSE ""

unwrap_or_default(T, o) == IF IsSome(o) THEN Get(o) ELSE default(T)

-----------------------------------------------------------------------------
(* cli.rs: PathIdentification *)

NixExtension == [variant |-> "NixExtension", regex |-> ""]
Regex(r) == [variant |-> "Regex", regex |-> r]

\* the patterns of the model: two that compile, one anchored at the end and
\* one that can match anywhere, and one that does not compile
RsPattern == "\\.rs$"
LibPattern == "lib"
BadPattern == "["

\* Regex::new(pattern).is_ok()
Regex_new_ok(pattern) == pattern # BadPattern

\* U+FFFD, which to_string_lossy puts in the place of invalid unicode
Replacement == "<FFFD>"

\* Path::to_string_lossy: the text of the path, kept in segments, with the
\* "/" between components and the "." between segments left implicit
to_string_lossy(path) ==
    [i \in 1..Len(path) |->
        [j \in 1..Len(path[i]) |->
            IF path[i][j] = NotUnicode THEN Replacement ELSE path[i][j]]]

\* regex.is_match(&path.to_string_lossy()), for the patterns of the model:
\* \.rs$ matches when the text ends in ".rs", lib when "lib" occurs in it
is_match(r, path) ==
    LET text == to_string_lossy(path)
    IN  CASE r = RsPattern ->
               /\ text # <<>>
               /\ Len(Last(text)) >= 2
               /\ Last(Last(text)) = "rs"
          [] r = LibPattern ->
               \E i \in 1..Len(text) : \E j \in 1..Len(text[i]) :
                   text[i][j] = "lib"
          [] OTHER -> FALSE

Ok == [kind |-> "Ok", path |-> NoPath, msg |-> ""]
OkPath(p) == [kind |-> "Ok", path |-> p, msg |-> ""]

InvalidPattern == "Invalid regex pattern"

\* from_pattern with a pattern that does not compile taken as no pattern
from_pattern_lenient(pattern) ==
    IF ~IsSome(pattern) THEN OkPath(NixExtension)
    ELSE IF Regex_new_ok(Get(pattern)) THEN OkPath(Regex(Get(pattern)))
    ELSE OkPath(NixExtension)

\* Ok(identification) carried in the record's path field
from_pattern(pattern) ==
    IF ~IsSome(pattern) THEN OkPath(NixExtension)
    ELSE IF Regex_new_ok(Get(pattern)) THEN OkPath(Regex(Get(pattern)))
    ELSE Err(InvalidPattern)

\* every path taken for text
IsUnicode_lenient(path) == TRUE

\* Path::to_str / OsStr::to_str is Some
IsUnicode(path) == \A i \in 1..Len(path) : \A j \in 1..Len(path[i]) :
                       path[i][j] # NotUnicode

\* should_process with the extension rule as a test of the name's ending
should_process_ends_with(identification, path) ==
    IF identification.variant = "NixExtension"
    THEN /\ path # <<>>
         /\ Len(Last(path)) >= 2
         /\ Last(Last(path)) = "nix"
    ELSE is_match(identification.regex, path)

\* should_process with the extension rule kept next to the pattern
should_process_both(identification, path) ==
    \/ /\ IsSome(extension(path))
       /\ IsUnicode(<<Get(extension(path))>>)
       /\ Get(extension(path)) = <<"nix">>
    \/ /\ identification.variant = "Regex"
       /\ is_match(identification.regex, path)

\* every path is a target
should_process_all(identification, path) == TRUE

should_process(identification, path) ==
    IF identification.variant = "NixExtension"
    THEN /\ IsSome(extension(path))
         /\ IsUnicode(<<Get(extension(path))>>)
         /\ Get(extension(path)) = <<"nix">>
    ELSE is_match(identification.regex, path)

-----------------------------------------------------------------------------
(* nixdoc.rs: mirror_path, the Nixdoc command and AutoNixdoc::execute *)

mirror_path(source_path, source_base, dest_base) ==
    IF ~IsSome(parent(source_path)) THEN Err(NoParent)
    ELSE LET source_dir == Get(parent(source_path))
             relative_path == strip_prefix(source_dir, source_base)
         IN  IF ~IsSome(relative_path) THEN Panic(PrefixBug)
             ELSE IF ~IsSome(file_stem(source_path)) THEN Err(NoStem)
             ELSE OkPath(mirror(dest_base, Get(relative_path),
                                Get(file_stem(source_path))))

\* the arguments of the command that Nixdoc::into builds
into_command(category, description, file, prefix, anchor_prefix) ==
    <<"--category", category, "--description", description, "--file", file>>
    \o (IF IsSome(prefix) THEN <<"--prefix", Get(prefix)>> ELSE <<>>)
    \o (IF IsSome(anchor_prefix)
        THEN <<"--anchor-prefix", Get(anchor_prefix)>> ELSE <<>>)

\* the text of a source file, by its file name
source_text(path) ==
    CASE Last(path) = <<"a", "nix">> -> <<"# a", "about a", "{ }">>
      [] Last(path) = <<"b", "nix">> -> <<"{ }">>
      [] Last(path) = <<"a", "rs">> -> <<>>
      [] Last(path) = <<"a", "a", "nix">> -> <<"{ }">>
      [] OTHER -> <<"# x", "about x">>

\* the first line in place of the second
description_of_first_line(lines) == IF Len(lines) >= 1 THEN lines[1] ELSE ""

\* reader.lines().nth(1) ... .unwrap_or_default()
description_of(lines) == IF Len(lines) >= 2 THEN lines[2] ELSE ""

\* create_dir_all: the directory and every missing ancestor
create_dir_all(ds, dir) == ds \cup {SubSeq(dir, 1, k) : k \in 1..Len(dir)}

\* the file is created when it is missing and left as it is otherwise
create_keep(fs, dest) ==
    [p \in DOMAIN fs \cup {dest} |-> IF p \in DOMAIN fs THEN fs[p] ELSE <<>>]

\* File::create: the file exists afterwards and is empty
create(fs, dest) ==
    [p \in DOMAIN fs \cup {dest} |-> IF p = dest THEN <<>> ELSE fs[p]]

\* the generator's standard output, streamed into the destination
write(fs, dest, text) ==
    [p \in DOMAIN fs |-> IF p = dest THEN fs[p] \o text ELSE fs[p]]

\* what a generator that exits with status zero prints
generated(args) == <<"doc", args[2], args[4]>>

\* The faults the environment can inject into one execution: the source
\* file cannot be opened ("open"), the generator cannot be started
\* ("spawn"), the generator exits non-zero ("exit").
Faults == {"none", "open", "spawn", "exit"}

OpenError == "No such file or directory (os error 2)"
SpawnError == "nixdoc command execution failed"
CommandError == "nixdoc command error: "

\* what a generator that exits non-zero leaves on its standard error
stderr == "error: syntax error"

\* the message without the standard-error text
command_error_bare(text) == CommandError

\* anyhow!("nixdoc command error: {}", String::from_utf8_lossy(&output.stderr))
command_error(text) == CommandError \o text
InvalidEncoding == "source path was not valid unicode"

\* the result of a call with the directories, the files and the generator
\* calls it leaves behind
returned(r, ds, fs, cs) == [res |-> r, dirs |-> ds, files |-> fs, calls |-> cs]

\* execute gets as far as File::open: a fault can strike
reaches_open(anx, path) ==
    /\ IsUnicode(path)
    /\ IsSome(file_stem(path))
    /\ mirror_path(path, anx.input_root, anx.output_root).kind = "Ok"

\* execute with the source file opened after the generator has run
execute_open_last(anx, path, fault, ds, fs, cs) ==
    LET stem == file_stem(path)
        dest == mirror_path(path, anx.input_root, anx.output_root)
    IN
    IF ~IsUnicode(path) THEN returned(Err(InvalidEncoding), ds, fs, cs)
    ELSE IF ~IsSome(stem) THEN returned(Err(NoStem), ds, fs, cs)
    ELSE IF dest.kind # "Ok" THEN returned(dest, ds, fs, cs)
    ELSE
    LET ds1 == IF IsSome(parent(dest.path))
               THEN create_dir_all(ds, Get(parent(dest.path))) ELSE ds
        fs1 == create(fs, dest.path)
        args == into_command(Get(stem), "", path, Some(anx.prefix),
                             Some(anx.anchor_prefix))
    IN
    IF fault = "spawn" THEN returned(Err(SpawnError), ds1, fs1, cs)
    ELSE IF fault = "exit"
    THEN returned(Err(command_error(stderr)), ds1, fs1, Append(cs, args))
    ELSE IF fault = "open"
    THEN returned(Err(OpenError), ds1, write(fs1, dest.path, generated(args)),
                  Append(cs, args))
    ELSE returned(Ok, ds1, write(fs1, dest.path, generated(args)),
                  Append(cs, args))

\* One call of execute, on a source file with the given fault.
execute(anx, path, fault, ds, fs, cs) ==
    LET stem == file_stem(path)
        dest == mirror_path(path, anx.input_root, anx.output_root)
    IN
    IF ~IsUnicode(path) THEN returned(Err(InvalidEncoding), ds, fs, cs)
    ELSE IF ~IsSome(stem) THEN returned(Err(NoStem), ds, fs, cs)
    ELSE IF dest.kind # "Ok" THEN returned(dest, ds, fs, cs)
    ELSE
    LET ds1 == IF IsSome(parent(dest.path))
               THEN create_dir_all(ds, Get(parent(dest.path))) ELSE ds
        fs1 == create(fs, dest.path)
        args == into_command(Get(stem), description_of(source_text(path)),
                             path, Some(anx.prefix), Some(anx.anchor_prefix))
    IN
    IF fault = "open" THEN returned(Err(OpenError), ds1, fs1, cs)
    ELSE IF fault = "spawn" THEN returned(Err(SpawnError), ds1, fs1, cs)
    ELSE IF fault = "exit"
    THEN returned(Err(command_error(stderr)), ds1, fs1, Append(cs, args))
    ELSE returned(Ok, ds1, write(fs1, dest.path, generated(args)),
                  Append(cs, args))

-----------------------------------------------------------------------------
(* cli.rs: Driver::resolve_config *)

DefaultConfig == [ignore_paths |-> {}, failure_behavior |-> None,
                  prefix |-> None, anchor_prefix |-> None,
                  logging_level |-> None]

ReadError == "Failed to read configuration file from user-provided path"
ParseError == "Failed to parse user-provided configuration file as valid TOML"
DefaultReadError == "A configuration file exists at the default path, but cannot be read"
DefaultParseError == "Failed to parse default configuration file as valid TOML"

\* What a configuration path holds: "missing" (no such file), "unknown"
\* (std::fs::exists fails, and so does a read), "unreadable" (it exists and
\* read_to_string fails), "invalid" (no valid TOML), "valid" (parses to cfg).
DiskStates == {"missing", "unknown", "unreadable", "invalid", "valid"}

\* resolve_config with the default path as a fallback for an explicit path
\* that cannot be read
resolve_config_fallback(disk, path) ==
    IF IsSome(path) /\ disk[Get(path)].state = "invalid" THEN Err(ParseError)
    ELSE IF IsSome(path) /\ disk[Get(path)].state = "valid"
    THEN OkPath(disk[Get(path)].cfg)
    ELSE IF disk[DEFAULT_CONFIG_PATH].state \notin {"missing", "unknown"}
    THEN IF disk[DEFAULT_CONFIG_PATH].state = "unreadable"
         THEN Err(DefaultReadError)
         ELSE IF disk[DEFAULT_CONFIG_PATH].state = "invalid"
         THEN Err(DefaultParseError)
         ELSE OkPath(disk[DEFAULT_CONFIG_PATH].cfg)
    ELSE OkPath(DefaultConfig)

\* resolve_config with a default file that does not parse taken as absent
resolve_config_default_lenient(disk, path) ==
    IF IsSome(path)
    THEN IF disk[Get(path)].state \in {"missing", "unknown", "unreadable"}
         THEN Err(ReadError)
         ELSE IF disk[Get(path)].state = "invalid" THEN Err(ParseError)
         ELSE OkPath(disk[Get(path)].cfg)
    ELSE IF disk[DEFAULT_CONFIG_PATH].state = "valid"
    THEN OkPath(disk[DEFAULT_CONFIG_PATH].cfg)
    ELSE OkPath(DefaultConfig)

\* disk: configuration path -> [state, cfg]
resolve_config(disk, path) ==
    IF IsSome(path)
    THEN IF disk[Get(path)].state \in {"missing", "unknown", "unreadable"}
         THEN Err(ReadError)
         ELSE IF disk[Get(path)].state = "invalid" THEN Err(ParseError)
         ELSE OkPath(disk[Get(path)].cfg)
    ELSE IF disk[DEFAULT_CONFIG_PATH].state \notin {"missing", "unknown"}
    THEN IF disk[DEFAULT_CONFIG_PATH].state = "unreadable"
         THEN Err(DefaultReadError)
         ELSE IF disk[DEFAULT_CONFIG_PATH].state = "invalid"
         THEN Err(DefaultParseError)
         ELSE OkPath(disk[DEFAULT_CONFIG_PATH].cfg)
    ELSE OkPath(DefaultConfig)

\* the paths resolve_config passes to std::fs, with what it finds there
probes(disk, path) ==
    IF IsSome(path)
    THEN <<[path |-> Get(path), state |-> disk[Get(path)].state,
            cfg |-> disk[Get(path)].cfg]>>
    ELSE <<[path |-> DEFAULT_CONFIG_PATH,
            state |-> disk[DEFAULT_CONFIG_PATH].state,
            cfg |-> disk[DEFAULT_CONFIG_PATH].cfg]>>

-----------------------------------------------------------------------------
(* cli.rs: the two decision points of Driver::run_in_path *)

\* on_entry_error with Abort handled as Skip is
on_entry_error_abort_continues(on_failure) ==
    CASE on_failure = "Abort" -> "continue"
      [] on_failure = "Log" -> "log"
      [] on_failure = "Skip" -> "continue"

\* after Walk yielded Err(e)
on_entry_error(on_failure) ==
    CASE on_failure = "Abort" -> "return"
      [] on_failure = "Log" -> "log"
      [] on_failure = "Skip" -> "continue"

\* on_execute with Abort handled as Log is
on_execute_abort_logs(on_failure, kind) ==
    IF kind = "Panic" THEN "unwind"
    ELSE IF kind # "Err" THEN "continue"
    ELSE CASE on_failure = "Abort" -> "log"
           [] on_failure = "Log" -> "log"
           [] on_failure = "Skip" -> "continue"

\* on_execute with Log handled as Abort is
on_execute_log_returns(on_failure, kind) ==
    IF kind = "Panic" THEN "unwind"
    ELSE IF kind # "Err" THEN "continue"
    ELSE CASE on_failure = "Abort" -> "return"
           [] on_failure = "Log" -> "return"
           [] on_failure = "Skip" -> "continue"

\* after execute: a panic is no Err(e) and unwinds through the loop
on_execute(on_failure, kind) ==
    IF kind = "Panic" THEN "unwind"
    ELSE IF kind # "Err" THEN "continue"
    ELSE CASE on_failure = "Abort" -> "return"
           [] on_failure = "Log" -> "log"
           [] on_failure = "Skip" -> "continue"

ListError == "Failed to list directory"
GenerationError == "Documentation generation failed for file"
ConfigError == "Failed to resolve configuration file"

error(what, path) == [level |-> "error", what |-> what, path |-> path]
info(what, path) == [level |-> "info", what |-> what, path |-> path]

-----------------------------------------------------------------------------
(* ConfigSpec: the resolution of one field of Driver::run, on every input  *)
(* of the bounded sets                                                     *)

Fields == {"on_failure", "prefix", "anchor_prefix", "regex_pattern"}

FieldType(f) == IF f = "on_failure" THEN "FailureBehavior" ELSE "String"

FieldKey(f) ==
    CASE f = "on_failure" -> ON_FAILURE
      [] f = "prefix" -> PREFIX
      [] f = "anchor_prefix" -> ANCHOR_PREFIX
      [] f = "regex_pattern" -> REGEX_PATTERN

\* what the command line or the configuration file can hold for a field
\* (for regex_pattern, a key that AutoMappingConfig does not declare)
FieldValues(f) ==
    IF f = "on_failure" THEN {None} \cup {Some(b) : b \in FailureBehavior}
    ELSE IF f = "regex_pattern"
    THEN {None, Some(RsPattern), Some(LibPattern), Some(BadPattern)}
    ELSE {None, Some(""), Some("lib"), Some("cfg")}

\* what the environment can hold for a variable
EnvValues ==
    {None, Some(NotUnicode)} \cup
    {Some(x) : x \in {"", "abort", "ABORT", "Log", "sKiP", "BOGUS", "lib"}}

\* the effective value of a field, as Driver::run computes it
effective(f, cli_value, config_value) ==
    unwrap_or_default(FieldType(f),
        resolve_with_config(FieldType(f), cli_value, FieldKey(f), config_value))

\* the pattern option, as Driver::run computes it
resolved_pattern(cli_value) == resolve_option("String", cli_value, REGEX_PATTERN)

NoEnv == [k \in EnvKeys |-> None]

ConfigIdle == c_in = <<>> /\ c_out = None

MapIdle == m_in = <<>> /\ m_out = None

IdentIdle == p_in = <<>> /\ p_out = None

DriverIdle ==
    /\ pc = "idle" /\ self = <<>> /\ config = <<>> /\ behaviors = <<>>
    /\ autonixdoc = <<>> /\ walked = <<>> /\ log = <<>> /\ dirs = {}
    /\ files = <<>> /\ calls = <<>> /\ executed = <<>> /\ result = None
    /\ probed = <<>> /\ previous = <<>>

ConfigInit ==
    /\ \E f \in Fields :
         \E cv \in FieldValues(f), fv \in FieldValues(f) :
           c_in = [field |-> f, cli_value |-> cv, config_value |-> fv]
    /\ \E v \in EnvValues, w \in {None, Some("abort")} :
         env = [k \in EnvKeys |-> IF k = FieldKey(c_in.field) THEN v ELSE w]
    /\ c_out = None
    /\ MapIdle
    /\ IdentIdle
    /\ DriverIdle

ResolveField ==
    /\ c_out = None
    /\ c_out' = IF c_in.field = "regex_pattern"
                THEN Some(resolved_pattern(c_in.cli_value))
                ELSE Some(effective(c_in.field, c_in.cli_value,
                                    c_in.config_value))
    /\ UNCHANGED <<c_in, env, mvars, pvars, dvars>>

ConfigNext == ResolveField

ConfigSpec == ConfigInit /\ [][ConfigNext]_vars

-----------------------------------------------------------------------------
(* IdentSpec: from_pattern and should_process on every input of the        *)
(* bounded sets                                                            *)

IdentSeg == {"", "a", "nix", "NIX", "rs", "lib", NotUnicode}

IdentNames == UNION {[1..k -> IdentSeg] : k \in 1..MaxSegs} \ {<<"">>}

IdentDirs == {<<>>, <<lib>>, <<RootDir, src>>}

IdentPaths ==
    {<<>>, <<RootDir>>} \cup
    {Norm(d \o <<n>>) : d \in IdentDirs, n \in IdentNames}

IdentPatterns == {None, Some(RsPattern), Some(LibPattern), Some(BadPattern)}

\* Behaviors::new, then should_process on the path
identify(pattern, path) ==
    IF from_pattern(pattern).kind = "Ok"
    THEN [kind |-> "Ok",
          process |-> should_process(from_pattern(pattern).path, path)]
    ELSE [kind |-> "Err", process |-> FALSE]

IdentInit ==
    /\ \E pt \in IdentPatterns, pa \in IdentPaths :
         p_in = [pattern |-> pt, path |-> pa]
    /\ p_out = None
    /\ env = NoEnv
    /\ MapIdle
    /\ ConfigIdle
    /\ DriverIdle

Identify ==
    /\ p_out = None
    /\ p_out' = Some(identify(p_in.pattern, p_in.path))
    /\ UNCHANGED <<p_in, env, mvars, cvars, dvars>>

IdentNext == Identify

IdentSpec == IdentInit /\ [][IdentNext]_vars

-----------------------------------------------------------------------------
(* MapSpec: one call of resolve on every input of the bounded sets *)

MapInit ==
    /\ \E sb \in SourceBases, db \in DestBases, sp \in SourcePaths :
         \E ig \in IgnoreSets(sp) :
           m_in = [source_base |-> sb, dest_base |-> db, source_path |-> sp,
                   ignore_paths |-> ig]
    /\ m_out = None
    /\ env = NoEnv
    /\ ConfigIdle
    /\ IdentIdle
    /\ DriverIdle

Resolve ==
    /\ m_out = None
    /\ m_out' = Some(resolve(m_in.ignore_paths, m_in.source_base,
                             m_in.dest_base, m_in.source_path))
    /\ UNCHANGED <<m_in, env, cvars, pvars, dvars>>

MapNext == Resolve

MapSpec == MapInit /\ [][MapNext]_vars

-----------------------------------------------------------------------------
(* Spec: one run of the Driver *)

InputDirs == {<<RootDir, src>>, <<<<"a", "nix">>>>}
OutputDir == <<RootDir, docs>>
CustomConfig == "custom.toml"

\* the command lines of the model: every failure behaviour with every
\* pattern on the first input root, every failure behaviour on the second,
\* and an explicit configuration path
Driver(i, f, c, r) ==
    [input_dir |-> i, output_dir |-> OutputDir, on_failure |-> f,
     config |-> c, prefix |-> None, anchor_prefix |-> None,
     regex_pattern |-> r]

Drivers ==
    {Driver(<<RootDir, src>>, f, None, r) :
        f \in {None, Some("Abort"), Some("Skip")},
        r \in {None, Some(RsPattern), Some(BadPattern)}} \cup
    {Driver(i, f, None, None) :
        i \in InputDirs, f \in {None, Some("Abort"), Some("Skip")}} \cup
    {Driver(<<RootDir, src>>, None, Some(CustomConfig), None)}

\* the files and the directories below the input root, relative to it
RelFiles == {<< <<"a", "nix">> >>, << <<"b", "nix">> >>, << <<"a", "rs">> >>,
             <<lib, <<"a", "nix">>>>, << <<NotUnicode, "nix">> >>,
             << <<"a", "a", "nix">> >>}
RelDirs == {<<lib>>}

\* The faults that the files of the tree can meet, in the executions that
\* get as far as File::open: every source file may hold what makes the
\* generator exit non-zero, and b.nix may be unreadable or find no generator
\* to start.
FaultsOf(anx, path) ==
    IF ~reaches_open(anx, path) THEN {"none"}
    ELSE IF Last(path) = <<"b", "nix">> THEN Faults
    ELSE {"none", "exit"}

\* what a configuration path can hold
Contents(input_dir) ==
    {[state |-> st, cfg |-> DefaultConfig] :
        st \in DiskStates \ {"valid"}} \cup
    {[state |-> "valid", cfg |-> [DefaultConfig EXCEPT !.ignore_paths = ig]] :
        ig \in {{}, {join(input_dir, << <<"a", "nix">> >>)}}} \cup
    {[state |-> "valid",
      cfg |-> [DefaultConfig EXCEPT !.failure_behavior = Some("Abort")]]}

Disks(input_dir) == [{CustomConfig, DEFAULT_CONFIG_PATH} -> Contents(input_dir)]

\* the configuration files are varied under the command lines that set no
\* failure behaviour and no pattern; the others find no configuration file
DisksFor(d) ==
    IF d.on_failure = None /\ d.regex_pattern = None
       /\ d.input_dir = <<RootDir, <<"src">>>>
    THEN Disks(d.input_dir)
    ELSE {disk \in Disks(d.input_dir) :
            \A p \in DOMAIN disk : disk[p].state = "missing"}

\* An entry of the walk: Err(e), or Ok(entry) with the entry's path.  Once
\* the loop has handled it, fault records what the environment did to its
\* execution and outcome what the iteration came to: the kind of the result
\* of execute, or "declined" when execute was not called, and msg the
\* message of that result.
ErrEntry == [ok |-> FALSE, path |-> NoPath, is_dir |-> FALSE,
             fault |-> "none", outcome |-> "", msg |-> ""]
OkEntry(p, d) == [ok |-> TRUE, path |-> p, is_dir |-> d,
                  fault |-> "none", outcome |-> "", msg |-> ""]

\* the most entries one walk yields
MaxEntries == 3

Walked(p) == \E i \in 1..Len(walked) : walked[i].ok /\ walked[i].path = p
WalkedDir(p) == \E i \in 1..Len(walked) :
                    walked[i].ok /\ walked[i].is_dir /\ walked[i].path = p

\* Walk yields the root first, then what is below it when it is a directory,
\* a directory before its content and no path twice.
Yields(e) ==
    IF walked = <<>>
    THEN e \in {ErrEntry, OkEntry(self.input_dir, TRUE),
                OkEntry(self.input_dir, FALSE)}
    ELSE /\ walked[1].ok /\ walked[1].is_dir
         /\ Len(walked) < MaxEntries
         /\ \/ e = ErrEntry
            \/ /\ e \in {OkEntry(join(self.input_dir, r), TRUE) : r \in RelDirs}
                     \cup {OkEntry(join(self.input_dir, r), FALSE) : r \in RelFiles}
               /\ ~Walked(e.path)
               /\ WalkedDir(Get(parent(e.path)))

Entries == {ErrEntry} \cup
           {OkEntry(join(i, r), d) : i \in InputDirs,
                                     r \in RelFiles \cup RelDirs \cup {<<>>},
                                     d \in BOOLEAN}

\* the environments a run starts in
Environments ==
    {NoEnv,
     [NoEnv EXCEPT ![ON_FAILURE] = Some("Log")],
     [NoEnv EXCEPT ![CONFIG] = Some(CustomConfig)]}

\* the environment is varied under the command lines that set at most the
\* failure behaviour Skip
Init ==
    /\ pc = "start"
    /\ self \in Drivers
    /\ env \in Environments
    /\ env = NoEnv \/ self \in {Driver(<<RootDir, src>>, f, None, None) :
                                   f \in {None, Some("Skip")}}
    /\ config = <<>> /\ behaviors = <<>> /\ autonixdoc = <<>>
    /\ walked = <<>> /\ log = <<>> /\ dirs = {} /\ files = <<>>
    /\ calls = <<>> /\ executed = <<>> /\ result = None /\ probed = <<>>
    /\ previous = None
    /\ MapIdle
    /\ ConfigIdle
    /\ IdentIdle

Loaded(disk) ==
    resolve_config(disk, resolve_option("PathBuf", self.config, CONFIG))

Probed(disk) == probes(disk, resolve_option("PathBuf", self.config, CONFIG))

Pattern == from_pattern(resolved_pattern(self.regex_pattern))

\* In a second run the tree is unchanged and the generator deterministic:
\* Walk yields the entries of the first run in their order, and each
\* execution meets the fault it met then.
Replays(e, fault) ==
    previous # None =>
        /\ Len(walked) < Len(Get(previous).walked)
        /\ LET w == Get(previous).walked[Len(walked) + 1]
           IN  /\ e = [w EXCEPT !.fault = "none", !.outcome = "", !.msg = ""]
               /\ fault = w.fault

\* run returns the error of resolve_config
RunConfigError ==
    /\ pc = "start"
    /\ \E disk \in DisksFor(self) :
         /\ Loaded(disk).kind = "Err"
         /\ probed' = Probed(disk)
    /\ pc' = "done"
    /\ result' = Some(Err(ConfigError))
    /\ UNCHANGED <<self, env, previous, config, behaviors, autonixdoc, walked, log,
                   dirs, files, calls, executed, mvars, cvars, pvars>>

\* run returns the error of Behaviors::new
RunPatternError ==
    /\ pc = "start"
    /\ Pattern.kind = "Err"
    /\ \E disk \in DisksFor(self) :
         /\ Loaded(disk).kind = "Ok"
         /\ config' = Loaded(disk).path
         /\ probed' = Probed(disk)
    /\ pc' = "done"
    /\ result' = Some(Pattern)
    /\ UNCHANGED <<self, env, previous, behaviors, autonixdoc, walked, log, dirs,
                   files, calls, executed, mvars, cvars, pvars>>

\* run up to its call of run_in_path
RunStart ==
    /\ pc = "start"
    /\ Pattern.kind = "Ok"
    /\ \E disk \in DisksFor(self) :
         /\ Loaded(disk).kind = "Ok"
         /\ probed' = Probed(disk)
         /\ LET cfg == Loaded(disk).path
            IN  /\ config' = cfg
                /\ behaviors' =
                     [on_failure |-> effective("on_failure", self.on_failure,
                                               cfg.failure_behavior),
                      path_identification |-> Pattern.path]
                /\ autonixdoc' =
                     [prefix |-> effective("prefix", self.prefix, cfg.prefix),
                      anchor_prefix |-> effective("anchor_prefix",
                                          self.anchor_prefix, cfg.anchor_prefix),
                      input_root |-> self.input_dir,
                      output_root |-> self.output_dir]
    /\ pc' = "walk"
    /\ UNCHANGED <<self, env, previous, walked, log, dirs, files, calls, executed,
                   result, mvars, cvars, pvars>>

\* one iteration of the loop on Err(e)
StepEntryError ==
    /\ pc = "walk"
    /\ Yields(ErrEntry)
    /\ Replays(ErrEntry, "none")
    /\ walked' = Append(walked, ErrEntry)
    /\ LET d == on_entry_error(behaviors.on_failure)
       IN  /\ log' = IF d = "log" THEN Append(log, error(ListError, NoPath))
                     ELSE log
           /\ pc' = IF d = "return" THEN "done" ELSE "walk"
           /\ result' = IF d = "return" THEN Some(Err(ListError)) ELSE result
    /\ UNCHANGED <<self, env, previous, config, behaviors, autonixdoc, dirs, files,
                   calls, executed, probed, mvars, cvars, pvars>>

\* one iteration of the loop on a file that the identification accepts
StepExecute ==
    /\ pc = "walk"
    /\ \E e \in Entries :
         /\ e.ok /\ ~e.is_dir
         /\ Yields(e)
         /\ should_process(behaviors.path_identification, e.path)
         /\ \E fault \in FaultsOf(autonixdoc, e.path) :
              /\ Replays(e, fault)
              /\ LET r == execute(autonixdoc, e.path, fault, dirs, files, calls)
                     d == on_execute(behaviors.on_failure, r.res.kind)
                 IN  /\ walked' = Append(walked, [e EXCEPT !.fault = fault,
                                                            !.outcome = r.res.kind,
                                                  !.msg = r.res.msg])
                     /\ executed' = Append(executed, e.path)
                     /\ dirs' = r.dirs
                     /\ files' = r.files
                     /\ calls' = r.calls
                     /\ log' = log \o <<info("Generating documentation for", e.path)>>
                               \o (IF d = "log"
                                   THEN <<error("Failed to generate documentation for",
                                                e.path)>>
                                   ELSE <<>>)
                     /\ pc' = IF d \in {"return", "unwind"} THEN "done" ELSE "walk"
                     /\ result' = IF d = "return" THEN Some(Err(GenerationError))
                                  ELSE IF d = "unwind" THEN Some(r.res)
                                  ELSE result
    /\ UNCHANGED <<self, env, previous, config, behaviors, autonixdoc, probed,
                   mvars, cvars, pvars>>

\* one iteration of the loop on a directory or a file of no interest
StepUninteresting ==
    /\ pc = "walk"
    /\ \E e \in Entries :
         /\ e.ok
         /\ Replays(e, "none")
         /\ Yields(e)
         /\ e.is_dir \/ ~should_process(behaviors.path_identification, e.path)
         /\ walked' = Append(walked, [e EXCEPT !.outcome = "declined"])
         /\ log' = Append(log, info("Skipping uninteresting path", e.path))
    /\ UNCHANGED <<pc, self, env, previous, config, behaviors, autonixdoc, dirs, files,
                   calls, executed, result, probed, mvars, cvars, pvars>>

\* a loop that does not return when Walk is exhausted
WalkEnd_hangs ==
    /\ pc = "walk"
    /\ walked # <<>>
    /\ UNCHANGED vars

\* Walk is exhausted: run_in_path returns Ok(())
WalkEnd ==
    /\ pc = "walk"
    /\ walked # <<>>
    /\ previous # None => Len(walked) = Len(Get(previous).walked)
    /\ pc' = "done"
    /\ result' = Some(Ok)
    /\ UNCHANGED <<self, env, previous, config, behaviors, autonixdoc, walked, log,
                   dirs, files, calls, executed, probed, mvars, cvars, pvars>>

\* The same command is run again under Log or Skip, on the unchanged input
\* tree and with what the first run left below the output root: the same
\* configuration and behaviours are resolved, and the walk starts anew.
\* (Followed for the runs that found no configuration file.)
RunAgain ==
    /\ pc = "done"
    /\ walked # <<>>
    /\ previous = None
    /\ behaviors.on_failure \in {"Log", "Skip"}
    /\ probed[1].state = "missing"
    /\ previous' = Some([walked |-> walked, dirs |-> dirs, files |-> files])
    /\ pc' = "walk"
    /\ walked' = <<>>
    /\ log' = <<>>
    /\ calls' = <<>>
    /\ executed' = <<>>
    /\ result' = None
    /\ UNCHANGED <<self, env, config, behaviors, autonixdoc, dirs, files,
                   probed, mvars, cvars, pvars>>

Next ==
    \/ RunConfigError
    \/ RunPatternError
    \/ RunStart
    \/ StepEntryError
    \/ StepExecute
    \/ StepUninteresting
    \/ WalkEnd
    \/ RunAgain

Spec == Init /\ [][Next]_vars

\* The steps of one run of the command.
RunStep ==
    \/ RunConfigError
    \/ RunPatternError
    \/ RunStart
    \/ WalkEnd
    \/ StepEntryError
    \/ StepUninteresting
    \/ StepExecute

\* One run, with progress: run and run_in_path are sequential code, so while
\* a step of the run is possible the process takes one, given that Walk
\* yields finitely many entries (MaxEntries) and that every generator
\* invocation returns (StepExecute is one step).
LiveSpec == Init /\ [][RunStep]_vars /\ WF_vars(RunStep)

-----------------------------------------------------------------------------
(* ExecSpec: one call of AutoNixdoc::execute, on every path of the bounded *)
(* sets and below an empty output root                                     *)

AutoNixdocs ==
    {[prefix |-> "", anchor_prefix |-> "", input_root |-> sb,
      output_root |-> db] : sb \in SourceBases, db \in DestBases}

ExecInit ==
    /\ pc = "execute"
    /\ autonixdoc \in AutoNixdocs
    /\ self = <<>> /\ config = <<>> /\ behaviors = <<>>
    /\ walked = <<>> /\ log = <<>> /\ dirs = {} /\ files = <<>>
    /\ calls = <<>> /\ executed = <<>> /\ result = None /\ probed = <<>>
    /\ previous = None
    /\ env = NoEnv
    /\ MapIdle
    /\ ConfigIdle
    /\ IdentIdle

\* the call, recorded like an entry of a walk
Execute ==
    /\ pc = "execute"
    /\ \E path \in SourcePaths :
       \E fault \in IF reaches_open(autonixdoc, path) THEN Faults
                     ELSE {"none"} :
         /\ LET r == execute(autonixdoc, path, fault, dirs, files, calls)
            IN  /\ walked' = <<[OkEntry(path, FALSE) EXCEPT
                                    !.fault = fault,
                                    !.outcome = r.res.kind,
                                    !.msg = r.res.msg]>>
                /\ executed' = <<path>>
                /\ dirs' = r.dirs
                /\ files' = r.files
                /\ calls' = r.calls
                /\ result' = Some(r.res)
    /\ pc' = "done"
    /\ UNCHANGED <<self, env, previous, config, behaviors, autonixdoc, log,
                   probed, mvars, cvars, pvars>>

ExecNext == Execute

ExecSpec == ExecInit /\ [][ExecNext]_vars

-----------------------------------------------------------------------------
(* The tiered resolution of a field, under ConfigSpec *)

\* the value the environment gives a field: set, valid text, and parseable
C1_EnvValue ==
    LET v == env[FieldKey(c_in.field)]
    IN  IF v = None \/ v = Some(NotUnicode) THEN None
        ELSE IF c_in.field # "on_failure" THEN v
        ELSE IF Get(v) \in {"abort", "ABORT"} THEN Some("Abort")
        ELSE IF Get(v) = "Log" THEN Some("Log")
        ELSE IF Get(v) = "sKiP" THEN Some("Skip")
        ELSE None

C1_Expected ==
    IF c_in.cli_value # None THEN Get(c_in.cli_value)
    ELSE IF C1_EnvValue # None THEN Get(C1_EnvValue)
    ELSE IF c_in.config_value # None THEN Get(c_in.config_value)
    ELSE IF c_in.field = "on_failure" THEN "Log"
    ELSE ""

\* C1: the resolved value of a field is the command line's value if there is
\* one, else the parsed value of the environment variable if it is set and
\* parses, else the configuration file's value, else the default (Log, or
\* the empty string); an environment value that does not parse counts as
\* absent and is no error.
C1_TieredResolution ==
    (c_out # None /\ c_in.field \in {"on_failure", "prefix", "anchor_prefix"})
        => Get(c_out) = C1_Expected

\* an unparseable environment value falls through to the configuration file
C1_Witness ==
    /\ c_out # None
    /\ c_in.field = "on_failure"
    /\ c_in.cli_value = None
    /\ env[ON_FAILURE] = Some("BOGUS")
    /\ c_in.config_value = Some("Skip")
    /\ Get(c_out) = "Skip"

\* the pattern the environment gives: the text of AUTONIXDOC_REGEX_PATTERN
C17_EnvPattern ==
    IF env["AUTONIXDOC_REGEX_PATTERN"] = Some(NotUnicode) THEN None
    ELSE env["AUTONIXDOC_REGEX_PATTERN"]

\* C17, as stated: the pattern is the command line's value, else the
\* environment variable's, else the configuration file's, else none (the
\* extension strategy).
C17_PatternTiers ==
    (c_out # None /\ c_in.field = "regex_pattern") =>
        Get(c_out) = IF c_in.cli_value # None THEN c_in.cli_value
                     ELSE IF C17_EnvPattern # None THEN C17_EnvPattern
                     ELSE IF c_in.config_value # None THEN c_in.config_value
                     ELSE None

\* C17, amended: the pattern is the command line's value, else the
\* environment variable's, else none (the extension strategy), whatever the
\* configuration file holds.
C17_PatternTwoTiers ==
    (c_out # None /\ c_in.field = "regex_pattern") =>
        Get(c_out) = IF c_in.cli_value # None THEN c_in.cli_value
                     ELSE IF C17_EnvPattern # None THEN C17_EnvPattern
                     ELSE None

\* the file names a pattern, the command line and the environment none: no
\* pattern is resolved
C17_Witness ==
    /\ c_out # None
    /\ c_in.field = "regex_pattern"
    /\ c_in.cli_value = None
    /\ c_in.config_value = Some("\\.rs$")
    /\ env["AUTONIXDOC_REGEX_PATTERN"] = None
    /\ Get(c_out) = None

-----------------------------------------------------------------------------
(* The mapping, under MapSpec *)

\* the path arithmetic of resolve succeeds on the input
C_Mappable ==
    /\ m_out # None
    /\ m_in.source_path \notin m_in.ignore_paths
    /\ IsSome(parent(m_in.source_path))
    /\ starts_with(Get(parent(m_in.source_path)), m_in.source_base)
    /\ IsSome(file_stem(m_in.source_path))

\* r: the parent directory relative to the input root
C_RelativeParent ==
    Get(strip_prefix(Get(parent(m_in.source_path)), m_in.source_base))

\* O/r/s.md, with s the file name without its final extension
C6_Destination ==
    Norm(m_in.dest_base \o C_RelativeParent
         \o <<Get(file_stem(m_in.source_path)) \o <<"md">>>>)

\* C6: for a source path under the input root that is not ignored, with stem
\* s and relative parent r, resolve returns OutputTo(O/r/s.md), for file
\* names of one dot and of several dots alike.
C6_MirrorsStem ==
    C_Mappable => Get(m_out) = OutputTo(C6_Destination)

\* C7: every OutputTo destination has the output root as a prefix and,
\* relative to it, the directory components that the source file has
\* relative to the input root, for absolute, relative and mixed roots.
C7_UnderOutputRoot ==
    (m_out # None /\ Get(m_out).kind = "OutputTo") =>
        /\ starts_with(Get(m_out).path, m_in.dest_base)
        /\ IsSome(parent(Get(m_out).path))
        /\ starts_with(Get(parent(Get(m_out).path)), m_in.dest_base)
        /\ Get(strip_prefix(Get(parent(Get(m_out).path)), m_in.dest_base))
             = C_RelativeParent

\* C8: a path of ignore_paths maps to Skip, without error and without panic,
\* whatever its parent, its stem and its place relative to the input root;
\* a path that is not in ignore_paths never maps to Skip.
C8_IgnoredIsSkip ==
    m_out # None =>
        /\ m_in.source_path \in m_in.ignore_paths => Get(m_out) = Skip
        /\ m_in.source_path \notin m_in.ignore_paths
             => Get(m_out).kind # "Skip"

\* an ignored path with no parent came out as Skip
C8_Witness ==
    /\ m_out = Some(Skip)
    /\ m_in.source_path \in m_in.ignore_paths
    /\ ~IsSome(parent(m_in.source_path))

\* C10: for a path that is not ignored and whose parent directory does not
\* have the input root as a prefix, resolve gives no error value and no
\* OutputTo: it panics, and the panic ends the run under Abort, Log and Skip.
C10_PrefixPanics ==
    (/\ m_out # None
     /\ m_in.source_path \notin m_in.ignore_paths
     /\ IsSome(parent(m_in.source_path))
     /\ ~starts_with(Get(parent(m_in.source_path)), m_in.source_base))
    => /\ Get(m_out).kind = "Panic"
       /\ \A b \in FailureBehavior :
            on_execute(b, Get(m_out).kind) = "unwind"

\* /src/lib/a.nix mapped from the input root src
C10_Witness ==
    /\ m_out # None
    /\ m_in.source_path = <<RootDir, src, lib, <<"a", "nix">>>>
    /\ m_in.source_base = <<src>>
    /\ m_in.ignore_paths = {}
    /\ Get(m_out).kind = "Panic"

\* the source path is the empty path or the root: it has no parent
C11_HasNoParent == m_in.source_path \in {<<>>, <<RootDir>>}

\* the last component of the source path is ".." or ".": it has no file stem
C11_HasNoStem ==
    /\ m_in.source_path # <<>>
    /\ Last(m_in.source_path) \in {ParentDir, CurDir}

\* C11: for a path that is not ignored, resolve returns the error "source
\* path had no parent" when the path has no parent directory, and the error
\* "source path had no file name" when its parent is under the input root
\* and it has no file stem; both are error values, neither a panic nor an
\* OutputTo.
C11_PathErrors ==
    (m_out # None /\ m_in.source_path \notin m_in.ignore_paths) =>
        /\ C11_HasNoParent
              => Get(m_out) = [kind |-> "Err", path |-> NoPath,
                               msg |-> "source path had no parent"]
        /\ (/\ ~C11_HasNoParent
            /\ C11_HasNoStem
            /\ starts_with(Front(m_in.source_path), m_in.source_base))
              => Get(m_out) = [kind |-> "Err", path |-> NoPath,
                               msg |-> "source path had no file name"]

\* /src/.. mapped from the input root /src
C11_Witness ==
    /\ m_out # None
    /\ m_in.source_path = <<RootDir, src, ParentDir>>
    /\ m_in.source_base = <<RootDir, src>>
    /\ m_in.ignore_paths = {}
    /\ Get(m_out).kind = "Err"
    /\ Get(m_out).msg = "source path had no file name"

-----------------------------------------------------------------------------
(* The failure behaviours, under Spec *)

\* a failure event: a traversal error, or an error returned by execute
FailureEvent(e) == ~e.ok \/ e.outcome = "Err"

Failures == SelectSeq(walked, FailureEvent)

ErrorLog == SelectSeq(log, LAMBDA d : d.level = "error")

\* the error diagnostic that names a failure event
DiagnosticOf(e) ==
    IF e.ok THEN error("Failed to generate documentation for", e.path)
    ELSE error(ListError, NoPath)

\* the loop has been entered: the behaviours are resolved
Running == walked # <<>>

\* the destination of a source path of the run
DestinationOf(path) == mirror_path(path, self.input_dir, self.output_dir).path

\* C2: under Abort the first failure event ends the run with an error
\* result, and no entry after the failing one is identified, mapped or
\* passed to the generator.
C2_AbortStops ==
    (Running /\ behaviors.on_failure = "Abort") =>
        /\ \A i \in 1..Len(walked) :
             FailureEvent(walked[i]) =>
                /\ i = Len(walked)
                /\ pc = "done"
                /\ Get(result).kind = "Err"
        /\ \A i \in 1..Len(executed) : Walked(executed[i])
        /\ \A i \in 1..Len(calls) : Walked(calls[i][6])

\* an Abort run that generated one file and failed on the next
C2_Witness ==
    /\ Running
    /\ behaviors.on_failure = "Abort"
    /\ pc = "done"
    /\ Len(walked) = 3
    /\ walked[2].outcome = "Ok"
    /\ walked[3].outcome = "Err"
    /\ Get(result).kind = "Err"

\* C3: under Log every failure event emits exactly one error diagnostic
\* that names it, the run goes on to the next entry, and the result of the
\* run is success however many entries failed.
C3_LogSucceeds ==
    (Running /\ behaviors.on_failure = "Log") =>
        /\ ErrorLog = [i \in 1..Len(Failures) |-> DiagnosticOf(Failures[i])]
        /\ pc = "done" => result = Some(Ok)

\* C4: under Skip a failure event emits no error diagnostic, the run goes
\* on to the next entry and its result is success; a well-formed file next
\* to a failing one still gets its output.
C4_SkipSucceeds ==
    (Running /\ behaviors.on_failure = "Skip") =>
        /\ ErrorLog = <<>>
        /\ pc = "done" => result = Some(Ok)
        /\ \A i \in 1..Len(walked) :
             walked[i].outcome = "Ok" =>
                /\ DestinationOf(walked[i].path) \in DOMAIN files
                /\ files[DestinationOf(walked[i].path)] # <<>>

\* C5: once the configuration and the pattern are resolved, the result of
\* the run is a failure if and only if the behaviour is Abort and there was
\* a failure event; under Log and Skip it is success for every sequence of
\* per-file outcomes.
C5_FailureIffAbort ==
    (Running /\ pc = "done") =>
        (result # Some(Ok)
            <=> (behaviors.on_failure = "Abort" /\ Failures # <<>>))

\* C9: for a target that is in ignore_paths the execution returns success
\* with no side effect: no destination file is created and the generator
\* is not called for it.
C9_IgnoredUntouched ==
    Running =>
        \A i \in 1..Len(walked) :
            (walked[i].ok /\ walked[i].path \in config.ignore_paths) =>
                /\ walked[i].outcome \in {"Ok", "declined"}
                /\ DestinationOf(walked[i].path) \notin DOMAIN files
                /\ \A j \in 1..Len(calls) : calls[j][6] # walked[i].path

-----------------------------------------------------------------------------
(* The errors before the walk, under Spec *)

\* nothing was identified, mapped or generated, and nothing was written
C_NothingProcessed ==
    /\ walked = <<>>
    /\ executed = <<>>
    /\ calls = <<>>
    /\ files = <<>>
    /\ dirs = {}

\* the configuration has loaded: run went on to resolve the pattern
C_ConfigLoaded ==
    /\ probed # <<>>
    /\ result # Some([kind |-> "Err", path |-> NoPath,
                      msg |-> "Failed to resolve configuration file"])

\* the pattern that the command line and the environment give
C14_ResolvedPattern ==
    IF self.regex_pattern # None THEN self.regex_pattern
    ELSE env["AUTONIXDOC_REGEX_PATTERN"]

\* C14: when the pattern that run resolves (after the configuration has
\* loaded) is no valid pattern, the run fails with the error "Invalid regex
\* pattern" before the traversal starts, under every failure behaviour: no
\* file is identified, mapped or generated and nothing is written.
C14_InvalidPatternFatal ==
    (C_ConfigLoaded /\ C14_ResolvedPattern = Some("[")) =>
        /\ pc = "done"
        /\ result = Some([kind |-> "Err", path |-> NoPath,
                          msg |-> "Invalid regex pattern"])
        /\ C_NothingProcessed

\* an invalid pattern with --on-failure skip
C14_Witness ==
    /\ C_ConfigLoaded
    /\ self.regex_pattern = Some("[")
    /\ self.on_failure = Some("Skip")
    /\ pc = "done"
    /\ Get(result).msg = "Invalid regex pattern"

\* the configuration path given by the flag, else by AUTONIXDOC_CONFIG
C15_ExplicitPath ==
    IF self.config # None THEN self.config ELSE env["AUTONIXDOC_CONFIG"]

\* C15: when a configuration path is given by the flag, or by
\* AUTONIXDOC_CONFIG without the flag, and the file does not exist or does
\* not parse, the run fails before any file is processed, under every
\* failure behaviour, and writes nothing; the default path is not probed.
C15_ExplicitConfigFatal ==
    (probed # <<>> /\ C15_ExplicitPath # None) =>
        /\ \A i \in 1..Len(probed) : probed[i].path = Get(C15_ExplicitPath)
        /\ probed[1].state # "valid" =>
              /\ pc = "done"
              /\ Get(result).kind = "Err"
              /\ Get(result).msg = "Failed to resolve configuration file"
              /\ C_NothingProcessed

\* the path comes from the environment and the file does not exist
C15_Witness ==
    /\ probed # <<>>
    /\ self.config = None
    /\ env["AUTONIXDOC_CONFIG"] = Some("custom.toml")
    /\ probed[1].state = "missing"
    /\ self.on_failure = Some("Skip")
    /\ pc = "done"
    /\ Get(result).kind = "Err"

\* the configuration of a run without a configuration file
C16_AllDefaults ==
    [ignore_paths |-> {}, failure_behavior |-> None, prefix |-> None,
     anchor_prefix |-> None, logging_level |-> None]

\* C16: with no configuration path from the command line or the
\* environment, autonixdoc.toml is probed: if it exists it is loaded, and a
\* failure to read or to parse it is fatal; if it does not exist the run
\* goes on with the all-defaults configuration and no error.
C16_DefaultConfigProbed ==
    (probed # <<>> /\ C15_ExplicitPath = None) =>
        /\ Len(probed) = 1
        /\ probed[1].path = "autonixdoc.toml"
        /\ probed[1].state \in {"unreadable", "invalid"} =>
              /\ pc = "done"
              /\ Get(result).msg = "Failed to resolve configuration file"
              /\ C_NothingProcessed
        /\ probed[1].state = "valid" =>
              /\ C_ConfigLoaded
              /\ config = probed[1].cfg
        /\ probed[1].state = "missing" =>
              /\ C_ConfigLoaded
              /\ config = C16_AllDefaults

\* a run without a configuration file that reached the walk
C16_Witness ==
    /\ probed # <<>>
    /\ C15_ExplicitPath = None
    /\ probed[1].state = "missing"
    /\ Running
    /\ config = C16_AllDefaults

-----------------------------------------------------------------------------
(* The identification of targets, under IdentSpec *)

\* the file name of the path has a final extension and it is "nix": the
\* name is cut by a dot into a part that is not empty and the part "nix"
C12_FinalExtensionIsNix ==
    /\ p_in.path # <<>>
    /\ LET name == p_in.path[Len(p_in.path)]
       IN  /\ Len(name) >= 2
           /\ name[Len(name)] = "nix"
           /\ name # <<"", "nix">>

\* C12: under the extension strategy should_process is true if and only if
\* the final extension of the path is exactly "nix": false without an
\* extension, with another extension, with "NIX", and for the name ".nix".
C12_ExtensionRule ==
    (p_out # None /\ p_in.pattern = None) =>
        /\ Get(p_out).kind = "Ok"
        /\ Get(p_out).process <=> C12_FinalExtensionIsNix

\* the file /src/.nix under the extension strategy is declined
C12_Witness ==
    /\ p_out # None
    /\ p_in.pattern = None
    /\ p_in.path = <<RootDir, src, <<"", "nix">>>>
    /\ ~Get(p_out).process

\* the text of the path ends in ".rs"
C13_EndsInDotRs ==
    /\ p_in.path # <<>>
    /\ LET name == p_in.path[Len(p_in.path)]
       IN  Len(name) >= 2 /\ name[Len(name)] = "rs"

\* "lib" occurs in the text of the path, in a directory or in the file name
C13_HoldsLib ==
    \E i \in 1..Len(p_in.path) : \E j \in 1..Len(p_in.path[i]) :
        p_in.path[i][j] = "lib"

\* C13: one strategy is active: with a pattern, should_process is true if
\* and only if the pattern matches somewhere in the text of the path, and
\* the extension rule does not apply (under \.rs$, a.rs is processed and
\* a.nix is not); without a pattern only the extension rule applies.
C13_OneStrategy ==
    (p_out # None /\ Get(p_out).kind = "Ok") =>
        /\ p_in.pattern = None
             => (Get(p_out).process <=> C12_FinalExtensionIsNix)
        /\ p_in.pattern = Some("\\.rs$")
             => (Get(p_out).process <=> C13_EndsInDotRs)
        /\ p_in.pattern = Some("lib")
             => (Get(p_out).process <=> C13_HoldsLib)

\* lib/a.nix under \.rs$ is declined
C13_Witness ==
    /\ p_out # None
    /\ p_in.pattern = Some("\\.rs$")
    /\ p_in.path = <<lib, <<"a", "nix">>>>
    /\ Get(p_out).kind = "Ok"
    /\ ~Get(p_out).process

-----------------------------------------------------------------------------
(* The generator's command line, under Spec *)

\* C18: the category handed to the generator is the path of the source
\* file relative to the input root, without its final extension, its
\* components joined by "." (lib/a.nix below the root gives "lib.a").
C18_RelativeCategory ==
    \A j \in 1..Len(calls) :
        LET rel == Get(strip_prefix(calls[j][6], self.input_dir))
            name == rel[Len(rel)]
            stem == IF Len(name) >= 2 /\ name # <<"", "nix">>
                    THEN SubSeq(name, 1, Len(name) - 1) ELSE name
        IN  calls[j][2] = (IF Len(rel) = 2 THEN rel[1] ELSE <<>>) \o stem

\* C19: the arguments are --category, --description and --file with their
\* values in this order, then --prefix and its value only when the prefix
\* is not empty, then --anchor-prefix and its value only when the anchor
\* prefix is not empty: six arguments when both are empty.
C19_PrefixesOnlyWhenSet ==
    \A j \in 1..Len(calls) :
        /\ Len(calls[j]) >= 6
        /\ calls[j][1] = "--category"
        /\ calls[j][3] = "--description"
        /\ calls[j][5] = "--file"
        /\ SubSeq(calls[j], 7, Len(calls[j])) =
             (IF autonixdoc.prefix # ""
              THEN <<"--prefix", autonixdoc.prefix>> ELSE <<>>)
             \o (IF autonixdoc.anchor_prefix # ""
                 THEN <<"--anchor-prefix", autonixdoc.anchor_prefix>>
                 ELSE <<>>)

\* C20: the description handed to the generator is the second line of the
\* source file, and the empty string when the file has no second line:
\* a.nix holds three lines, b.nix one, a.rs none.
C20_SecondLine ==
    \A j \in 1..Len(calls) :
        LET name == calls[j][6][Len(calls[j][6])]
        IN  /\ name = <<"a", "nix">> => calls[j][4] = "about a"
            /\ name = <<"b", "nix">> => calls[j][4] = ""
            /\ name = <<"a", "rs">> => calls[j][4] = ""

\* the generator was called for a.nix with its second line and for the
\* one-line b.nix with the empty description
C20_Witness ==
    /\ \E j \in 1..Len(calls) :
         /\ calls[j][6] = <<RootDir, src, <<"a", "nix">>>>
         /\ calls[j][4] = "about a"
    /\ \E j \in 1..Len(calls) :
         /\ calls[j][6] = <<RootDir, src, <<"b", "nix">>>>
         /\ calls[j][4] = ""

-----------------------------------------------------------------------------
(* The per-file execution, under Spec *)

\* the generator was started for the path
C_GeneratorRan(p) == \E j \in 1..Len(calls) : calls[j][6] = p

\* execute was called for the entry
C_Executed(e) == e.ok /\ e.outcome \in {"Ok", "Err", "Panic"}

\* C21: execute returns success if and only if the generator was started
\* and exited with status zero; on a non-zero exit it returns an error whose
\* message carries the generator's standard-error text, and the failure
\* behaviour handles that error as a per-file failure: Abort ends the run
\* with the generation error, Log emits one diagnostic and goes on, Skip
\* goes on silently.
C21_SuccessIffExitZero ==
    Running =>
        \A i \in 1..Len(walked) :
            C_Executed(walked[i]) =>
                /\ walked[i].outcome = "Ok"
                     <=> (C_GeneratorRan(walked[i].path)
                          /\ walked[i].fault # "exit")
                /\ (C_GeneratorRan(walked[i].path) /\ walked[i].fault = "exit")
                     => /\ walked[i].outcome = "Err"
                        /\ walked[i].msg =
                             "nixdoc command error: error: syntax error"
                        /\ behaviors.on_failure = "Abort"
                             => /\ i = Len(walked)
                                /\ pc = "done"
                                /\ result = Some(Err(GenerationError))
                        /\ behaviors.on_failure = "Log"
                             => /\ \E k \in 1..Len(log) :
                                     log[k] = DiagnosticOf(walked[i])
                                /\ result # Some(Err(GenerationError))
                        /\ behaviors.on_failure = "Skip"
                             => /\ \A k \in 1..Len(log) :
                                     log[k] # DiagnosticOf(walked[i])
                                /\ result # Some(Err(GenerationError))

\* under Log the generator exited non-zero for a.nix and was then run for
\* b.nix
C21_Witness ==
    /\ Running
    /\ behaviors.on_failure = "Log"
    /\ Len(walked) = 3
    /\ walked[2].path = <<RootDir, src, <<"a", "nix">>>>
    /\ walked[2].fault = "exit"
    /\ walked[2].outcome = "Err"
    /\ walked[3].outcome = "Ok"
    /\ Len(calls) = 2

\* the path holds a name that is no text
C_NotText(p) == \E i \in 1..Len(p) : \E j \in 1..Len(p[i]) : p[i][j] = "<80>"

\* C22: when the source path is not representable as text, execute fails
\* with "source path was not valid unicode" before any filesystem change (no
\* directory, no destination file, no generator call); the failure is a
\* per-file failure: Abort ends the run on it, Log and Skip go on.
C22_InvalidEncodingFirst ==
    [][(/\ Len(walked') = Len(walked) + 1
        /\ C_Executed(walked'[Len(walked')])
        /\ C_NotText(walked'[Len(walked')].path))
       => /\ walked'[Len(walked')].outcome = "Err"
          /\ walked'[Len(walked')].msg = "source path was not valid unicode"
          /\ dirs' = dirs
          /\ files' = files
          /\ calls' = calls
          /\ behaviors.on_failure = "Abort"
               => (pc' = "done" /\ result' = Some(Err(GenerationError)))
          /\ behaviors.on_failure \in {"Log", "Skip"}
               => (pc' = "walk" /\ result' = None)]_vars

\* under Skip the file with the unreadable name failed, nothing was written
\* for it, and a.nix was generated after it
C22_Witness ==
    /\ Running
    /\ behaviors.on_failure = "Skip"
    /\ Len(walked) = 3
    /\ walked[2].path = <<RootDir, src, <<"<80>", "nix">>>>
    /\ walked[2].outcome = "Err"
    /\ walked[2].msg = "source path was not valid unicode"
    /\ walked[3].path = <<RootDir, src, <<"a", "nix">>>>
    /\ walked[3].outcome = "Ok"
    /\ Len(calls) = 1
    /\ DOMAIN files = {<<RootDir, docs, <<"a", "md">>>>}

-----------------------------------------------------------------------------
(* The destinations of one run, under MapSpec *)

\* a documentation target below the input root: a file named <stem>.nix
\* with a stem that starts with a letter, under directories with names
C23_IsTarget(p) ==
    /\ p # <<>>
    /\ Len(Last(p)) >= 2
    /\ Last(p)[1] # ""
    /\ Last(p)[Len(Last(p))] = "nix"
    /\ starts_with(Front(p), m_in.source_base)
    /\ \A i \in Len(m_in.source_base) + 1..Len(p) : IsNormal(p[i])

\* C23: two distinct targets of one run that are not in ignore_paths never
\* get the same destination (a.nix and a.a.nix in one directory included).
C23_Injective ==
    (/\ m_out # None
     /\ Get(m_out).kind = "OutputTo"
     /\ C23_IsTarget(m_in.source_path))
    => \A q \in SourcePaths :
           (/\ q # m_in.source_path
            /\ C23_IsTarget(q)
            /\ q \notin m_in.ignore_paths)
           => resolve(m_in.ignore_paths, m_in.source_base, m_in.dest_base, q)
                # Get(m_out)

-----------------------------------------------------------------------------
(* Two runs in a row, under Spec *)

\* C24: under Log or Skip, with a deterministic generator, a second run on
\* the unchanged input tree leaves the output tree as the first run left it:
\* the same directories, the same set of files and the same content per
\* file; a destination is rewritten, never appended to, and a failing file
\* leaves the same result both times.
C24_SecondRunSame ==
    (previous # None /\ pc = "done") =>
        /\ behaviors.on_failure \in {"Log", "Skip"}
        /\ DOMAIN files = DOMAIN Get(previous).files
        /\ \A d \in DOMAIN files : files[d] = Get(previous).files[d]
        /\ dirs = Get(previous).dirs
        /\ \A i \in 1..Len(walked) :
             walked[i].outcome = Get(previous).walked[i].outcome

\* a second run under Skip has rewritten a.md and failed on b.nix again
C24_Witness ==
    /\ previous # None
    /\ pc = "done"
    /\ behaviors.on_failure = "Skip"
    /\ Len(walked) = 3
    /\ walked[2].path = <<RootDir, src, <<"a", "nix">>>>
    /\ walked[2].outcome = "Ok"
    /\ walked[3].path = <<RootDir, src, <<"b", "nix">>>>
    /\ walked[3].fault = "exit"
    /\ files[<<RootDir, docs, <<"a", "md">>>>] = <<"doc", <<"a">>, "about a">>
    /\ files[<<RootDir, docs, <<"b", "md">>>>] = <<>>

-----------------------------------------------------------------------------
(* What a failing generator leaves, under Spec *)

\* the positions of the walk at which execute was called
C_ExecutedAt == {i \in 1..Len(walked) : C_Executed(walked[i])}

\* C25: when the generator exits non-zero for a target, the target's
\* destination file still exists under Log and under Skip, so a first run
\* over one good and one bad file leaves exactly two output files.
C25_FailedKeepsFile ==
    (Running /\ behaviors.on_failure \in {"Log", "Skip"}) =>
        /\ \A i \in C_ExecutedAt :
             walked[i].fault = "exit"
                => DestinationOf(walked[i].path) \in DOMAIN files
        /\ (/\ previous = None
            /\ Cardinality(C_ExecutedAt) = 2
            /\ \E i \in C_ExecutedAt : walked[i].outcome = "Ok"
            /\ \E i \in C_ExecutedAt : walked[i].fault = "exit")
           => Cardinality(DOMAIN files) = 2

-----------------------------------------------------------------------------
(* The loop over the entries, under Spec *)

\* the entry is a file that the strategy of the run accepts: by its final
\* extension "nix", or under the pattern \.rs$ by its ending
C_Accepted(e) ==
    /\ e.ok
    /\ ~e.is_dir
    /\ LET name == e.path[Len(e.path)]
       IN  /\ Len(name) >= 2
           /\ IF behaviors.path_identification.variant = "NixExtension"
              THEN name[Len(name)] = "nix" /\ name # <<"", "nix">>
              ELSE name[Len(name)] = "rs"

\* C26: under Log or Skip every yielded entry that is a file accepted by the
\* strategy is passed to execute exactly once, in the order of the walk,
\* whatever became of the entries before it: no failure ends the run, no
\* file is retried, and the generator runs for one file after the other.
C26_EachOnceInOrder ==
    (Running /\ behaviors.on_failure \in {"Log", "Skip"}) =>
        /\ LET accepted == SelectSeq(walked, C_Accepted)
           IN  executed = [i \in 1..Len(accepted) |-> accepted[i].path]
        /\ \A i, j \in 1..Len(executed) :
             executed[i] = executed[j] => i = j
        /\ LET ran == SelectSeq(executed, C_GeneratorRan)
           IN  ran = [j \in 1..Len(calls) |-> calls[j][6]]
        /\ pc = "done" => Get(result).kind # "Err"

\* under Log, b.nix could not be opened and a.a.nix was generated after it
C26_Witness ==
    /\ Running
    /\ behaviors.on_failure = "Log"
    /\ Len(walked) = 3
    /\ walked[2].path = <<RootDir, src, <<"b", "nix">>>>
    /\ walked[2].fault = "open"
    /\ walked[2].outcome = "Err"
    /\ walked[3].path = <<RootDir, src, <<"a", "a", "nix">>>>
    /\ walked[3].outcome = "Ok"
    /\ executed = <<walked[2].path, walked[3].path>>

\* C27: an entry that is a directory (be it named like a target, as the
\* directory a.nix) or a file that the strategy declines is never passed to
\* execute, produces no output file, emits no error diagnostic and never
\* makes the run fail, under any failure behaviour.
C27_DeclinedIsSilent ==
    [][(/\ Len(walked') = Len(walked) + 1
        /\ walked'[Len(walked')].ok
        /\ ~C_Accepted(walked'[Len(walked')]))
       => /\ executed' = executed
          /\ calls' = calls
          /\ files' = files
          /\ dirs' = dirs
          /\ SelectSeq(log', LAMBDA d : d.level = "error") = ErrorLog
          /\ pc' = "walk"
          /\ result' = None]_vars

\* under Abort the directory a.nix and the file a.nix/a.rs were passed over
\* and the run ended in success with nothing written
C27_Witness ==
    /\ Running
    /\ behaviors.on_failure = "Abort"
    /\ Len(walked) = 2
    /\ walked[1].path = << <<"a", "nix">> >>
    /\ walked[1].is_dir
    /\ walked[2].path = << <<"a", "nix">>, <<"a", "rs">> >>
    /\ walked[1].outcome = "declined"
    /\ walked[2].outcome = "declined"
    /\ executed = <<>>
    /\ files = <<>>
    /\ result = Some(Ok)

\* C28: an entry for which the walk yields an error is never identified nor
\* generated; under Abort the run fails with "Failed to list directory",
\* under Log and Skip the walk goes on and the run succeeds, also when the
\* error means that no file at all was processed.
C28_ListErrors ==
    /\ [][(/\ Len(walked') = Len(walked) + 1
           /\ ~walked'[Len(walked')].ok)
          => /\ executed' = executed
             /\ calls' = calls
             /\ files' = files
             /\ dirs' = dirs
             /\ SelectSeq(log', LAMBDA d : d.level = "info")
                  = SelectSeq(log, LAMBDA d : d.level = "info")
             /\ behaviors.on_failure = "Abort"
                  => /\ pc' = "done"
                     /\ result' = Some([kind |-> "Err", path |-> NoPath,
                                        msg |-> "Failed to list directory"])
             /\ behaviors.on_failure \in {"Log", "Skip"}
                  => (pc' = "walk" /\ result' = None)]_vars
    /\ [](/\ Running
          /\ behaviors.on_failure \in {"Log", "Skip"}
          /\ pc = "done"
          /\ \E i \in 1..Len(walked) : ~walked[i].ok
          => result = Some(Ok))

\* under Skip the input root could not be listed: the run ended in success
\* and processed nothing
C28_Witness ==
    /\ Running
    /\ behaviors.on_failure = "Skip"
    /\ Len(walked) = 1
    /\ ~walked[1].ok
    /\ pc = "done"
    /\ result = Some(Ok)
    /\ executed = <<>>
    /\ log = <<>>

-----------------------------------------------------------------------------
(* The order of the steps of execute, under ExecSpec *)

\* the destination of the path under the roots of the call
C29_Dest(p) ==
    mirror_path(p, autonixdoc.input_root, autonixdoc.output_root).path

\* C29: execute maps, then creates the destination directory, then creates
\* or truncates the destination file, then reads the source, then runs the
\* generator.  So a mapping error (no parent, no file name) leaves the
\* filesystem unchanged, and a source that cannot be opened makes execute
\* fail with the empty destination file already created, in its directory,
\* and without a generator call; the generator only runs once the
\* destination exists.
C29_StepOrder ==
    [][(pc = "execute" /\ pc' = "done")
       => /\ walked'[1].msg \in {"source path had no parent",
                                 "source path had no file name"}
               => /\ walked'[1].outcome = "Err"
                  /\ dirs' = dirs
                  /\ files' = files
                  /\ calls' = calls
          /\ walked'[1].fault = "open"
               => /\ walked'[1].outcome = "Err"
                  /\ C29_Dest(walked'[1].path) \in DOMAIN files'
                  /\ files'[C29_Dest(walked'[1].path)] = <<>>
                  /\ Len(C29_Dest(walked'[1].path)) > 1
                       => Front(C29_Dest(walked'[1].path)) \in dirs'
                  /\ calls' = calls
          /\ calls' # calls
               => C29_Dest(walked'[1].path) \in DOMAIN files']_vars

\* src/lib/a.nix could not be opened: docs/lib/a.md exists and is empty,
\* docs/lib was created, the generator was not called
C29_Witness ==
    /\ pc = "done"
    /\ autonixdoc # <<>>
    /\ self = <<>>
    /\ walked[1].path = <<src, lib, <<"a", "nix">>>>
    /\ walked[1].fault = "open"
    /\ walked[1].outcome = "Err"
    /\ autonixdoc.input_root = <<src>>
    /\ autonixdoc.output_root = <<docs>>
    /\ DOMAIN files = {<<docs, lib, <<"a", "md">>>>}
    /\ files[<<docs, lib, <<"a", "md">>>>] = <<>>
    /\ <<docs, lib>> \in dirs
    /\ calls = <<>>

-----------------------------------------------------------------------------
(* Termination, under LiveSpec *)

\* C30: when the walk yields finitely many entries and every generator
\* invocation returns, a run that has started eventually finishes, with
\* success or with failure, under each of Abort, Log and Skip.
C30_Terminates == (pc \in {"start", "walk"}) ~> (pc = "done")

\* a first run under Log has finished in success after the most entries a
\* walk yields, two of them failures
C30_Witness ==
    /\ pc = "done"
    /\ walked # <<>>
    /\ behaviors.on_failure = "Log"
    /\ Len(walked) = MaxEntries
    /\ Len(Failures) = 2
    /\ result = Some(Ok)

=============================================================================
